---- MODULE Spec2Model ----
(***************************************************************************)
(* osmosis-externals-monitor (src/index.js): one run of the script polls   *)
(* the gauges of the node, rotates the two generations of the indexed      *)
(* snapshot kept in ./cache, diffs them per gauge id, classifies the       *)
(* deltas into notable events and hands the events to the Telegram         *)
(* formatter.  The cache directory is the only state that survives a run.  *)
(*                                                                         *)
(* Modelling conventions                                                   *)
(*  - a JSON object is a function from its property names to its values;   *)
(*    "{}" is the function with the empty domain;                          *)
(*  - a denom string is the sequence of its "/"-separated segments, a      *)
(*    segment being a run of decimal digits or a word without digits;      *)
(*  - a duration string "<n>s" is the number n in front of the unit;       *)
(*  - numeric strings of the API ("2") are the numbers JS coerces them to; *)
(*  - display-only fields (start_time, coin amounts, pool asset symbols)   *)
(*    are left out of gauges and events;                                   *)
(*  - file-system faults (a failing write or copy) are not modelled, the   *)
(*    behaviour switches not named in config are at their default 0.       *)
(***************************************************************************)
EXTENDS Integers, Sequences, FiniteSets, TLC

VARIABLES
    chain,                    \* the gauges the node reported at the last successful fetch
    cacheExists,              \* the ./cache files exist
    gaugesFresh,              \* ./cache/gauges.json is younger than API.RATE_LIMIT_SECONDS
    indexedFile,              \* ./cache/indexed-gauges.json
    oldFile,                  \* ./cache/indexed-gauges-old.json
    config,                   \* config.BEHAVIOR switches of the installation
    pc,                       \* position of the current run in the main IIFE
    gauges,                   \* main: let gauges
    indexedGauges,            \* main: const indexedGauges
    oldIndexedGauges,         \* main: const oldIndexedGauges
    deltas,                   \* main: const deltas
    arrNotableEvents,         \* main: let arrNotableEvents
    arrTelegramNotifications, \* doTelegramNotifications: const arrTelegramNotifications
    arrBatches,               \* processTelegramNotifications: let arrBatches
    reference,                \* the reference-data cache files and the last lookup in them
    call,                     \* a call of a helper function: its argument and what it returned
    telegram,                 \* doTelegramNotification: its invocations for one notification and the deliveries
    api,                      \* callAPI: the settings, the retries argument and the position of one call
    overlap,                  \* two processes of the script on one cache directory: the files and each run's locals
    rotations,                \* history: copies made by save_oldIndexedGauges in this run
    nearCount,                \* history: runs with NEAR_EXPIRATION per gauge in its current sequence of completed runs
    history                   \* history: what the runs before the current one left behind

\* The variables of a run of main, but for the reference data.
mainVars == <<chain, cacheExists, gaugesFresh, indexedFile, oldFile, config, pc, gauges,
              indexedGauges, oldIndexedGauges, deltas, arrNotableEvents,
              arrTelegramNotifications, arrBatches, rotations, nearCount, history>>

\* The variables the steps of main leave alone.
auxVars == <<reference, call, telegram, api, overlap>>

\* The variables the lookups in the reference data leave alone.
runVars == <<mainVars, call, telegram, api, overlap>>

\* The variables a call of a helper function leaves alone.
stateVars == <<mainVars, reference, telegram, api, overlap>>

vars == <<mainVars, reference, call, telegram, api, overlap>>

(***************************************************************************)
(* Bounds and program constants                                            *)
(***************************************************************************)
MaxEpochs == 2

\* config.TG_BOT.NOTIFICATION_BATCH_LIMIT of the installation.
NOTIFICATION_BATCH_LIMIT == 2

SecondsPerDay == 86400

\* Gauge ids (JS property keys are strings), in the order for..in enumerates
\* integer-like keys: ascending.
KeyOrder == <<"1", "2">>

GaugeIds == {KeyOrder[i] : i \in DOMAIN KeyOrder}

\* Segments of a denom that are runs of decimal digits.
DigitRuns == {"1", "2", "10", "01", "002"}

\* The decimal digits a digit run is written with.
DigitsOf(run) ==
    CASE run = "1" -> <<1>>
      [] run = "2" -> <<2>>
      [] run = "10" -> <<1, 0>>
      [] run = "01" -> <<0, 1>>
      [] run = "002" -> <<0, 0, 2>>

EmptyObject == [k \in {} |-> 0]

(***************************************************************************)
(* Gauges the node can report                                              *)
(***************************************************************************)
\* distribute_to with the duration "<seconds>s".
DistributeTo(denom, seconds) ==
    [present |-> TRUE, denom |-> denom, numeric |-> TRUE, duration |-> seconds]

\* distribute_to with a duration that is no number followed by one character.
MalformedDuration(denom) ==
    [present |-> TRUE, denom |-> denom, numeric |-> FALSE, duration |-> 0]

NoDistributeTo == [present |-> FALSE, denom |-> <<>>, numeric |-> FALSE, duration |-> 0]

PoolDenom(p) == <<"gamm", "pool", p>>

SuperbondingDenom(p) == <<"gamm", "pool", p, "superbonding", "val">>

GaugeBody(intId, perpetual, epochs, filled, target, coins) ==
    [intId |-> intId, is_perpetual |-> perpetual, num_epochs_paid_over |-> epochs,
     filled_epochs |-> filled, distribute_to |-> target, coins |-> coins]

\* The gauge bodies of the model: external, topped-up external, internal,
\* placeholder, perpetual external, superfluid (two pools, string and
\* integer id), a non-perpetual superfluid gauge one day before its end,
\* a record without distribute_to and one with a malformed duration.
GaugeBodies ==
    {GaugeBody(FALSE, FALSE, 2, f, DistributeTo(PoolDenom("1"), SecondsPerDay), <<"uosmo">>)
        : f \in 0..MaxEpochs}
    \cup {GaugeBody(FALSE, FALSE, 2, f, DistributeTo(PoolDenom("1"), SecondsPerDay),
                    <<"uosmo", "ibc/A">>) : f \in 0..MaxEpochs}
    \cup {GaugeBody(FALSE, TRUE, 1, f, DistributeTo(PoolDenom("1"), SecondsPerDay), <<"uosmo">>)
        : f \in 0..MaxEpochs}
    \cup {GaugeBody(FALSE, TRUE, 1, 0, DistributeTo(PoolDenom("1"), SecondsPerDay), <<>>),
          GaugeBody(FALSE, TRUE, 1, 0, DistributeTo(PoolDenom("1"), SecondsPerDay), <<"ibc/A">>),
          GaugeBody(FALSE, TRUE, 1, 0, DistributeTo(SuperbondingDenom("1"), SecondsPerDay), <<>>),
          GaugeBody(FALSE, TRUE, 1, 0, DistributeTo(SuperbondingDenom("2"), SecondsPerDay), <<>>),
          GaugeBody(TRUE, TRUE, 1, 0, DistributeTo(SuperbondingDenom("1"), SecondsPerDay), <<>>),
          GaugeBody(FALSE, FALSE, 2, 1, DistributeTo(SuperbondingDenom("1"), SecondsPerDay),
                    <<"uosmo">>),
          GaugeBody(FALSE, FALSE, 2, 0, NoDistributeTo, <<"uosmo">>),
          GaugeBody(FALSE, FALSE, 2, 0, MalformedDuration(PoolDenom("1")), <<"uosmo">>)}

\* gauge.id is the string k, or the integer whose decimal form is k.
Gauge(k, b) ==
    [id |-> [v |-> k, isInt |-> b.intId], is_perpetual |-> b.is_perpetual,
     num_epochs_paid_over |-> b.num_epochs_paid_over, filled_epochs |-> b.filled_epochs,
     distribute_to |-> b.distribute_to, coins |-> b.coins]

GaugesOf(k) == {Gauge(k, b) : b \in GaugeBodies}

\* What the node may report for a gauge it reported before: the same record,
\* one more filled epoch, or more reward coins.
LaterGauges(g) ==
    {h \in GaugesOf(g.id.v) :
        \/ h = g
        \/ h = [g EXCEPT !.filled_epochs = @ + 1]
        \/ h = [g EXCEPT !.coins = Append(@, "ibc/A")]}

\* The gauge sets the node may report after having reported c: known gauges
\* evolve or disappear, unknown ids may appear.
RECURSIVE LaterChainsFrom(_, _)
LaterChainsFrom(c, i) ==
    IF i > Len(KeyOrder) THEN {EmptyObject}
    ELSE LET key == KeyOrder[i]
             rest == LaterChainsFrom(c, i + 1)
             reported == IF key \in DOMAIN c THEN LaterGauges(c[key]) ELSE GaugesOf(key)
         IN rest \cup {[k \in DOMAIN y \cup {key} |-> IF k = key THEN g ELSE y[k]]
                       : y \in rest, g \in reported}

LaterChains(c) == LaterChainsFrom(c, 1)

\* A data list of the API response: the gauges in ascending id order.
RECURSIVE DataList(_, _)
DataList(c, i) ==
    IF i > Len(KeyOrder) THEN <<>>
    ELSE IF KeyOrder[i] \in DOMAIN c THEN <<c[KeyOrder[i]]>> \o DataList(c, i + 1)
    ELSE DataList(c, i + 1)

\* The orderings of a list: the API promises no order of the gauges.
Orderings(list) ==
    {[i \in DOMAIN list |-> list[f[i]]] :
        f \in {g \in [DOMAIN list -> DOMAIN list] :
                  \A i, j \in DOMAIN list : g[i] = g[j] => i = j}}

\* The data lists the API may answer with when the chain has the gauges c.
DataLists(c) == Orderings(DataList(c, 1))

(***************************************************************************)
(* Indexing and diffing (main, steps 3 and 4)                              *)
(***************************************************************************)
\* The property key JS derives from gauge.id: the id itself, or the decimal
\* form of an integer id.
PropertyKey(id) == id.v

\* Indexing by the position in the list (the key of the n-th entry is the
\* n-th key) in place of the gauge's id.
RECURSIVE IndexGauges_ByPosition(_, _)
IndexGauges_ByPosition(data, acc) ==
    IF data = <<>> THEN acc
    ELSE LET gauge == Head(data)
             key == KeyOrder[Cardinality(DOMAIN acc) + 1]
         IN IndexGauges_ByPosition(Tail(data),
                [k \in DOMAIN acc \cup {key} |-> IF k = key THEN gauge ELSE acc[k]])

\* indexedGauges[gauge.id] = gauge for every entry of the list, in order:
\* a later entry with the same id overwrites an earlier one.
RECURSIVE IndexGauges(_, _)
IndexGauges(data, acc) ==
    IF data = <<>> THEN acc
    ELSE LET gauge == Head(data)
             key == PropertyKey(gauge.id)
         IN IndexGauges(Tail(data),
                        [k \in DOMAIN acc \cup {key} |-> IF k = key THEN gauge ELSE acc[k]])

\* get_oldIndexedGauges that finds no previous snapshot.
get_oldIndexedGauges_Nothing(file) == EmptyObject

\* JSON.parse of indexed-gauges-old.json; the model's files always parse.
get_oldIndexedGauges(file) == file

\* A diff that compares the scalar fields only and passes over the coins.
Diff_ScalarsOnly(left, right) ==
    LET changed == {f \in (DOMAIN left \cup DOMAIN right) \ {"coins"} :
                        \/ f \notin DOMAIN left
                        \/ f \notin DOMAIN right
                        \/ left[f] # right[f]}
    IN [f \in changed |->
            IF f \notin DOMAIN left THEN <<right[f]>>
            ELSE IF f \notin DOMAIN right THEN <<left[f], 0, 0>>
            ELSE <<left[f], right[f]>>]

\* jsondiffpatch.diff(left, right) on two objects: a property of the result
\* per property that was added (<<new>>), changed (<<old, new>>) or deleted
\* (<<old, 0, 0>>); nothing at all (the empty function stands for undefined)
\* when the objects are deeply equal.  Nested objects and arrays are diffed
\* as a whole: the classifier reads only which properties a delta has.
Diff(left, right) ==
    LET changed == {f \in DOMAIN left \cup DOMAIN right :
                        \/ f \notin DOMAIN left
                        \/ f \notin DOMAIN right
                        \/ left[f] # right[f]}
    IN [f \in changed |->
            IF f \notin DOMAIN left THEN <<right[f]>>
            ELSE IF f \notin DOMAIN right THEN <<left[f], 0, 0>>
            ELSE <<left[f], right[f]>>]

\* The delta of a gauge against the empty object, whatever the old snapshot has.
GaugeDelta_AgainstEmpty(old, new, id) == Diff(EmptyObject, new[id])

\* The delta of one gauge of the new snapshot against the old snapshot:
\* const oldGauge = oldIndexedGauges[id] || {}.
GaugeDelta(old, new, id) ==
    Diff(IF id \in DOMAIN old THEN old[id] ELSE EmptyObject, new[id])

\* Deltas for the ids of either snapshot: a gauge that is gone is diffed
\* against the empty object.
CreateDeltas_BothSides(old, new) ==
    LET side(snapshot, k) == IF k \in DOMAIN snapshot THEN snapshot[k] ELSE EmptyObject
    IN [id \in {k \in DOMAIN new \cup DOMAIN old :
                    DOMAIN Diff(side(old, k), side(new, k)) # {}} |->
            Diff(side(old, id), side(new, id))]

\* Deltas for the ids the old snapshot already has only.
CreateDeltas_KnownOnly(old, new) ==
    [id \in {k \in DOMAIN new \cap DOMAIN old : DOMAIN GaugeDelta(old, new, k) # {}} |->
        GaugeDelta(old, new, id)]

\* for (const id in indexedGauges) { ...; if (delta) deltas[id] = delta }
CreateDeltas(old, new) ==
    [id \in {k \in DOMAIN new : DOMAIN GaugeDelta(old, new, k) # {}} |->
        GaugeDelta(old, new, id)]

(***************************************************************************)
(* Classification (processDeltas and the business logic functions)         *)
(***************************************************************************)
\* denom.match(/\d+/): the first run of digits, or no match.
RECURSIVE FirstDigitRun(_)
FirstDigitRun(denom) ==
    IF denom = <<>> THEN <<>>
    ELSE IF Head(denom) \in DigitRuns THEN <<Head(denom)>>
    ELSE FirstDigitRun(Tail(denom))

\* parseInt(digits): the number the digits denote in base ten.
RECURSIVE ParseInt(_)
ParseInt(digits) ==
    IF digits = <<>> THEN 0
    ELSE ParseInt(SubSeq(digits, 1, Len(digits) - 1)) * 10 + digits[Len(digits)]

\* The digits Number.prototype.toString writes for a natural number.
RECURSIVE DecimalDigits(_)
DecimalDigits(n) ==
    IF n < 10 THEN <<n>> ELSE Append(DecimalDigits(n \div 10), n % 10)

\* (n).toString()
NumberToString(n) == CHOOSE run \in DigitRuns : DigitsOf(run) = DecimalDigits(n)

\* getPoolIdFromGauge that returns the matched text itself.
getPoolIdFromGauge_MatchText(gauge) ==
    IF ~gauge.distribute_to.present THEN "NaN"
    ELSE LET match == FirstDigitRun(gauge.distribute_to.denom)
         IN IF match = <<>> THEN "NaN" ELSE match[1]

\* parseInt(match[0]).toString(), "NaN" without a match or when reading
\* distribute_to.denom throws.
getPoolIdFromGauge(gauge) ==
    IF ~gauge.distribute_to.present THEN "NaN"
    ELSE LET match == FirstDigitRun(gauge.distribute_to.denom)
         IN IF match = <<>> THEN "NaN"
            ELSE NumberToString(ParseInt(DigitsOf(match[1])))

\* denom.includes("superbonding")
HasSuperbonding(denom) == \E i \in DOMAIN denom : denom[i] = "superbonding"

\* denom.includes(`/${poolId}/superbonding`)
IncludesPoolSuperbonding(denom, poolId) ==
    \E i \in DOMAIN denom :
        /\ i > 1
        /\ i + 1 \in DOMAIN denom
        /\ denom[i] = poolId
        /\ denom[i + 1] = "superbonding"

\* The duration counted in hours in place of days.
Days_Hours(seconds) ==
    [nan |-> FALSE, whole |-> seconds \div 3600, rest |-> seconds % 3600]

\* The number seconds / 86400, as whole days and the seconds left over.
Days(seconds) ==
    [nan |-> FALSE, whole |-> seconds \div SecondsPerDay, rest |-> seconds % SecondsPerDay]

\* What the division gives for a string that is no number.
NaN == [nan |-> TRUE, whole |-> 0, rest |-> 0]

\* gauge.distribute_to.duration.slice(0, -1) / 86400
BondDurationDays(distribute_to) ==
    IF distribute_to.numeric THEN Days(distribute_to.duration) ELSE NaN

\* bondDurationDays <= remainingDays in place of ==.
DaysEqual_AtMost(bondDurationDays, remainingDays) ==
    /\ ~bondDurationDays.nan
    /\ bondDurationDays.rest = 0 /\ bondDurationDays.whole <= remainingDays

\* bondDurationDays == remainingDays
DaysEqual(bondDurationDays, remainingDays) ==
    /\ ~bondDurationDays.nan
    /\ bondDurationDays.rest = 0 /\ bondDurationDays.whole = remainingDays

NotableEvent(type, gauge) ==
    [type |-> type, poolId |-> getPoolIdFromGauge(gauge),
     bondDurationDays |-> BondDurationDays(gauge.distribute_to),
     remainingDays |-> gauge.num_epochs_paid_over - gauge.filled_epochs,
     gauge |-> gauge]

\* What a business logic function does: it returns an event, returns
\* nothing, or the process ends inside it.
Returns(events) == [exit |-> FALSE, events |-> events]

ProcessExit == [exit |-> TRUE, events |-> <<>>]

\* getPoolInfo -> getIndexedPools ends the process (process.exit(0)) when the
\* pool cache cannot be read or refreshed; refOk says it can.
getPoolInfo(refOk, result) == IF refOk THEN result ELSE ProcessExit

\* The near-expiration check without the is_perpetual test.
gauge_isNearExpiration_AnyGauge(gauge, refOk) ==
    IF ~gauge.distribute_to.present THEN Returns(<<>>)
    ELSE IF DaysEqual(BondDurationDays(gauge.distribute_to),
                      gauge.num_epochs_paid_over - gauge.filled_epochs)
         THEN getPoolInfo(refOk, Returns(<<NotableEvent("NEAR_EXPIRATION", gauge)>>))
         ELSE Returns(<<>>)

gauge_isNearExpiration(gauge, refOk) ==
    IF gauge.is_perpetual THEN Returns(<<>>)
    ELSE IF ~gauge.distribute_to.present THEN Returns(<<>>)   \* TypeError, caught
    ELSE IF DaysEqual(BondDurationDays(gauge.distribute_to),
                      gauge.num_epochs_paid_over - gauge.filled_epochs)
         THEN getPoolInfo(refOk, Returns(<<NotableEvent("NEAR_EXPIRATION", gauge)>>))
         ELSE Returns(<<>>)

\* id !== gauge.id, id a property key: an integer id is never identical to a key.
StrictNotEqual(key, id) == id.isInt \/ id.v # key

\* String(delta.id) of the array delta.id: its elements joined by ",".
DeltaIdKey(deltaId) ==
    IF Len(deltaId) = 1 THEN PropertyKey(deltaId[1]) ELSE "old,new"

\* The superfluid scan of gauge_isNew: some other entry of the snapshot has a
\* denom with this pool's marker (return), or no distribute_to (TypeError).
SuperfluidScanStops(gauge, snapshot) ==
    \E id \in DOMAIN snapshot :
        /\ StrictNotEqual(id, gauge.id)
        /\ \/ ~snapshot[id].distribute_to.present
           \/ IncludesPoolSuperbonding(snapshot[id].distribute_to.denom,
                                       getPoolIdFromGauge(gauge))

\* The decision table without the test of the first coin's denom.
NewGaugeType_AnyCoin(gauge, snapshot) ==
    IF HasSuperbonding(gauge.distribute_to.denom)
    THEN IF SuperfluidScanStops(gauge, snapshot) THEN <<>> ELSE <<"NEW_SUPERFLUID_GAUGE">>
    ELSE IF gauge.is_perpetual /\ gauge.coins # <<>>
         THEN <<"NEW_INTERNAL_GAUGE">>
    ELSE IF gauge.is_perpetual /\ gauge.coins = <<>> THEN <<>>
    ELSE <<"NEW_EXTERNAL_GAUGE">>

NewGaugeType(gauge, snapshot) ==
    IF HasSuperbonding(gauge.distribute_to.denom)
    THEN IF SuperfluidScanStops(gauge, snapshot) THEN <<>> ELSE <<"NEW_SUPERFLUID_GAUGE">>
    ELSE IF gauge.is_perpetual /\ gauge.coins # <<>> /\ gauge.coins[1] = "uosmo"
         THEN <<"NEW_INTERNAL_GAUGE">>
    ELSE IF gauge.is_perpetual /\ gauge.coins = <<>> THEN <<>>
    ELSE <<"NEW_EXTERNAL_GAUGE">>

gauge_isNew(delta, snapshot, refOk) ==
    IF "id" \notin DOMAIN delta THEN Returns(<<>>)
    ELSE LET key == DeltaIdKey(delta["id"])
         IN getPoolInfo(refOk,
                IF key \notin DOMAIN snapshot THEN Returns(<<>>)       \* gauge.coins throws
                ELSE LET gauge == snapshot[key]
                     IN IF ~gauge.distribute_to.present THEN Returns(<<>>)  \* TypeError, caught
                        ELSE IF gauge.num_epochs_paid_over - gauge.filled_epochs >= 0
                             THEN LET type == NewGaugeType(gauge, snapshot)
                                  IN IF type = <<>> THEN Returns(<<>>)
                                     ELSE Returns(<<NotableEvent(type[1], gauge)>>)
                             ELSE Returns(<<>>))

\* The loop body with the new-gauge check as the else branch of the
\* near-expiration check.
ClassifyDelta_Exclusive(delta, gauge, snapshot, refOk) ==
    LET near == IF "filled_epochs" \in DOMAIN delta
                THEN gauge_isNearExpiration(gauge, refOk)
                ELSE Returns(<<>>)
        new == IF near.events = <<>> THEN gauge_isNew(delta, snapshot, refOk)
               ELSE Returns(<<>>)
    IN IF near.exit \/ new.exit THEN ProcessExit
       ELSE Returns(near.events \o new.events)

\* The body of the for..in loop of processDeltas for one key of the deltas.
ClassifyDelta(delta, gauge, snapshot, refOk) ==
    LET near == IF "filled_epochs" \in DOMAIN delta
                THEN gauge_isNearExpiration(gauge, refOk)
                ELSE Returns(<<>>)
        new == gauge_isNew(delta, snapshot, refOk)
    IN IF near.exit \/ new.exit THEN ProcessExit
       ELSE Returns(near.events \o new.events)

\* processDeltas(indexedDeltas, indexedGauges): the keys in enumeration order.
RECURSIVE processDeltasFrom(_, _, _, _, _)
processDeltasFrom(i, indexedDeltas, snapshot, refOk, acc) ==
    IF i > Len(KeyOrder) THEN Returns(acc)
    ELSE LET idx == KeyOrder[i]
         IN IF idx \notin DOMAIN indexedDeltas
            THEN processDeltasFrom(i + 1, indexedDeltas, snapshot, refOk, acc)
            ELSE LET res == ClassifyDelta(indexedDeltas[idx], snapshot[idx], snapshot, refOk)
                 IN IF res.exit THEN ProcessExit
                    ELSE processDeltasFrom(i + 1, indexedDeltas, snapshot, refOk,
                                           acc \o res.events)

processDeltas(indexedDeltas, snapshot, refOk) ==
    processDeltasFrom(1, indexedDeltas, snapshot, refOk, <<>>)

(***************************************************************************)
(* The cache files                                                         *)
(***************************************************************************)
\* save_oldIndexedGauges that leaves indexed-gauges-old.json as it is.
save_oldIndexedGauges_Never(cfg, indexed, old) == old

\* The copy made whatever the switch says.
save_oldIndexedGauges_Always(cfg, indexed, old) == indexed

\* save_oldIndexedGauges(): indexed-gauges.json is copied over
\* indexed-gauges-old.json unless the switch forbids it.
save_oldIndexedGauges(cfg, indexed, old) ==
    IF cfg.SKIP_SAVE_OLD_INDEXED_GAUGES THEN old ELSE indexed

\* The copies one call of save_oldIndexedGauges makes.
CopiesMade(cfg) == IF cfg.SKIP_SAVE_OLD_INDEXED_GAUGES THEN 0 ELSE 1

\* save_indexedGauges(indexedGauges): the new content of indexed-gauges.json.
save_indexedGauges(snapshot) == snapshot

(***************************************************************************)
(* History of NEAR_EXPIRATION per gauge                                    *)
(***************************************************************************)
EventKey(event) == PropertyKey(event.gauge.id)

EmitsFor(events, type, id) ==
    \E i \in DOMAIN events : events[i].type = type /\ EventKey(events[i]) = id

\* The run saw gauge id one filled epoch after the previous snapshot, its
\* duration and num_epochs_paid_over unchanged.
NextEpochOf(old, new, id) ==
    /\ id \in DOMAIN old
    /\ id \in DOMAIN new
    /\ ~new[id].is_perpetual
    /\ new[id].distribute_to = old[id].distribute_to
    /\ new[id].num_epochs_paid_over = old[id].num_epochs_paid_over
    /\ new[id].filled_epochs = old[id].filled_epochs + 1

NearCountAfter(count, old, new, events) ==
    [id \in GaugeIds |->
        (IF NextEpochOf(old, new, id) THEN count[id] ELSE 0)
        + (IF EmitsFor(events, "NEAR_EXPIRATION", id) THEN 1 ELSE 0)]

(***************************************************************************)
(* The reference data: indexed-pools.json, indexed-assetlist.json and      *)
(* assetlist.json.  A cache file is what its content parses to (the empty  *)
(* object, an object with entries, or nothing that parses) and whether it  *)
(* is younger than its TTL.                                                *)
(***************************************************************************)
Contents == {"empty", "filled", "unreadable"}

CacheFile(content, fresh) == [content |-> content, fresh |-> fresh]

CacheFiles == [content : Contents, fresh : BOOLEAN]

\* What the pools request gives: a list of pools, an empty list, a JSON
\* answer without a pools list, or no answer.
PoolAnswers == {"pools", "emptylist", "nolist", "fail"}

\* What the asset list request gives: an object with assets, the object {},
\* or no answer.
AssetlistAnswers == {"assets", "nolist", "fail"}

\* saveIndexedPoolsFromPools(): fetchPoolsFromAPI, indexPools (process.exit
\* when what was fetched cannot be iterated), saveIndexedPools.
saveIndexedPoolsFromPools(file, answer) ==
    IF answer = "pools"
    THEN [fetched |-> TRUE, exit |-> FALSE, file |-> CacheFile("filled", TRUE)]
    ELSE IF answer = "emptylist"
    THEN [fetched |-> TRUE, exit |-> FALSE, file |-> CacheFile("empty", TRUE)]
    ELSE [fetched |-> TRUE, exit |-> TRUE, file |-> file]

\* age of indexed-pools.json > config.POOLS_CACHE_SECONDS
isIndexedPoolsExpired(file) == ~file.fresh

\* The pool cache refreshed by its age alone.
getIndexedPools_ExpiryOnly(file, answer) ==
    IF isIndexedPoolsExpired(file) THEN saveIndexedPoolsFromPools(file, answer)
    ELSE IF file.content = "unreadable"
    THEN [fetched |-> FALSE, exit |-> TRUE, file |-> file]
    ELSE [fetched |-> FALSE, exit |-> FALSE, file |-> file]

getIndexedPools(file, answer) ==
    IF isIndexedPoolsExpired(file) THEN saveIndexedPoolsFromPools(file, answer)
    ELSE IF file.content = "unreadable"                \* Object.keys(undefined) throws
    THEN [fetched |-> FALSE, exit |-> TRUE, file |-> file]
    ELSE IF file.content = "empty" THEN saveIndexedPoolsFromPools(file, answer)
    ELSE [fetched |-> FALSE, exit |-> FALSE, file |-> file]

\* fetchAssetlistFromAPI(): what was fetched is written to assetlist.json.
fetchAssetlistFromAPI(raw, answer) ==
    [fetched |-> TRUE, exit |-> FALSE, list |-> answer,
     raw |-> IF answer = "fail" THEN raw
             ELSE CacheFile(IF answer = "assets" THEN "filled" ELSE "empty", TRUE)]

\* getAssetList(): assetlist.json, fetched again when it is older than
\* config.ASSETLIST_CACHE_SECONDS or holds the empty object.
getAssetList(raw, answer) ==
    IF ~raw.fresh THEN fetchAssetlistFromAPI(raw, answer)
    ELSE IF raw.content = "unreadable"
    THEN [fetched |-> FALSE, exit |-> TRUE, list |-> "fail", raw |-> raw]
    ELSE IF raw.content = "empty" THEN fetchAssetlistFromAPI(raw, answer)
    ELSE [fetched |-> FALSE, exit |-> FALSE, list |-> "assets", raw |-> raw]

\* saveIndexedAssetListFromAssetlist(): getAssetList, indexAssetlist
\* (process.exit when the list has no assets to iterate), saveIndexedAssetList.
saveIndexedAssetListFromAssetlist(indexed, raw, answer) ==
    LET got == getAssetList(raw, answer)
    IN [fetched |-> got.fetched,
        exit |-> got.exit \/ got.list # "assets",
        indexed |-> IF ~got.exit /\ got.list = "assets"
                    THEN CacheFile("filled", TRUE) ELSE indexed,
        raw |-> got.raw]

\* age of indexed-assetlist.json > config.ASSETLIST_CACHE_SECONDS
isAssetlistExpired(indexed) == ~indexed.fresh

getIndexedAssetList(indexed, raw, answer) ==
    IF isAssetlistExpired(indexed)
    THEN saveIndexedAssetListFromAssetlist(indexed, raw, answer)
    ELSE IF indexed.content = "unreadable"
    THEN [fetched |-> FALSE, exit |-> TRUE, indexed |-> indexed, raw |-> raw]
    ELSE IF indexed.content = "empty"
    THEN saveIndexedAssetListFromAssetlist(indexed, raw, answer)
    ELSE [fetched |-> FALSE, exit |-> FALSE, indexed |-> indexed, raw |-> raw]

\* The last lookup: which list, the files it found, whether it fetched and
\* whether the process ended in it.
Lookup(kind, ref, fetched, exit) ==
    [kind |-> kind, indexedPools |-> ref.indexedPools,
     indexedAssetlist |-> ref.indexedAssetlist, assetlist |-> ref.assetlist,
     fetched |-> fetched, exit |-> exit]

\* The snapshot a run that ended in a lookup, after it had written
\* indexed-gauges.json, left in that file; nothing for any other run.  It is
\* recorded for an installation that rotates the snapshots.
NoSnapshot == [written |-> FALSE, snapshot |-> EmptyObject]

InterruptedSnapshot(cfg, position, snapshot, file) ==
    IF position = "exit_lookup" /\ file = snapshot /\ ~cfg.SKIP_SAVE_OLD_INDEXED_GAUGES
    THEN [written |-> TRUE, snapshot |-> file]
    ELSE NoSnapshot

\* The cache files of initializeFiles.
CacheFilenames ==
    {"assetlist.json", "deltas.json", "gauges.json", "indexed-assetlist.json",
     "indexed-gauges.json", "indexed-gauges-old.json", "indexed-pools.json",
     "notable-events.json"}

\* Before the first run: no interrupted run, no file created or written, no
\* gauge announced as new.
NoHistory == [interrupted |-> NoSnapshot, created |-> FALSE, written |-> {},
              announced |-> [id \in GaugeIds |-> 0]]

\* The run has an event of a NEW_* type for gauge id.
AnnouncesNew(events, id) ==
    \E type \in {"NEW_EXTERNAL_GAUGE", "NEW_INTERNAL_GAUGE", "NEW_SUPERFLUID_GAUGE"} :
        EmitsFor(events, type, id)

\* The completed runs that announced each gauge as new, after one more:
\* none, one, or more than one (2).  They are counted for an installation
\* with the BEHAVIOR switches of config.template.js.
AnnouncedAfter(cfg, past, events) ==
    [past EXCEPT !.announced =
        [id \in GaugeIds |->
            IF /\ AnnouncesNew(events, id)
               /\ ~cfg.IGNORE_EMPTY_DATA
               /\ ~cfg.SKIP_SAVE_OLD_INDEXED_GAUGES
            THEN (IF past.announced[id] = 0 THEN 1 ELSE 2)
            ELSE past.announced[id]]]

\* A gauge that the fetched snapshot does not have is not counted further.
PresentOnly(past, snapshot) ==
    [past EXCEPT !.announced =
        [id \in GaugeIds |-> IF id \in DOMAIN snapshot THEN past.announced[id] ELSE 0]]

\* fs.writeFileSync / fs.copyFileSync on the files of a step of the run.
Writes(past, filenames) == [past EXCEPT !.written = @ \cup filenames]

\* The file save_oldIndexedGauges writes.
OldCopyWritten(cfg) ==
    IF cfg.SKIP_SAVE_OLD_INDEXED_GAUGES THEN {} ELSE {"indexed-gauges-old.json"}

\* No notification is being delivered.
NoDelivery == [groups |-> {}, alive |-> TRUE, invocations |-> <<>>, delivered |-> <<>>]

\* callAPI is not being called.
NoApiCall == [RETRY_ATTEMPTS |-> 0, NOTIFICATION_RETRIES |-> 0, retries |-> 0, at |-> "none"]

\* No second process runs on the cache directory.
NoOverlap == [answer |-> <<>>, gaugesFresh |-> FALSE, indexedFile |-> EmptyObject,
              oldFile |-> EmptyObject, runs |-> <<>>]

\* No helper function is being called.
NoCall == [fn |-> "none", input |-> <<>>, output |-> <<>>, done |-> FALSE]

\* The reference data as initializeFiles creates it: "{}" in every file.
ReferenceAtInstall ==
    LET files == [indexedPools |-> CacheFile("empty", TRUE),
                  indexedAssetlist |-> CacheFile("empty", TRUE),
                  assetlist |-> CacheFile("empty", TRUE)]
    IN [indexedPools |-> files.indexedPools, indexedAssetlist |-> files.indexedAssetlist,
        assetlist |-> files.assetlist, alive |-> TRUE,
        lookup |-> Lookup("none", files, FALSE, FALSE)]

(***************************************************************************)
(* The state machine: runs of the script on one cache directory            *)
(***************************************************************************)
Configs == [IGNORE_EMPTY_DATA : BOOLEAN, SKIP_SAVE_OLD_INDEXED_GAUGES : BOOLEAN]

Stopped == {"idle", "done", "exit_ratelimit", "exit_api", "exit_nodata", "exit_lookup"}

Init ==
    /\ chain = EmptyObject
    /\ cacheExists = FALSE
    /\ gaugesFresh = FALSE
    /\ indexedFile = EmptyObject
    /\ oldFile = EmptyObject
    /\ config \in Configs
    /\ pc = "idle"
    /\ gauges = EmptyObject
    /\ indexedGauges = EmptyObject
    /\ oldIndexedGauges = EmptyObject
    /\ deltas = EmptyObject
    /\ arrNotableEvents = <<>>
    /\ arrTelegramNotifications = <<>>
    /\ arrBatches = <<>>
    /\ reference = ReferenceAtInstall
    /\ call = NoCall
    /\ telegram = NoDelivery
    /\ api = NoApiCall
    /\ overlap = NoOverlap
    /\ rotations = 0
    /\ nearCount = [id \in GaugeIds |-> 0]
    /\ history = NoHistory

\* A new process starts: initializeFiles() writes "{}" to every cache file
\* that does not exist, gauges.json included.
initializeFiles ==
    /\ pc \in Stopped
    /\ pc' = "fetch"
    /\ cacheExists' = TRUE
    /\ gaugesFresh' = IF cacheExists THEN gaugesFresh ELSE TRUE
    /\ indexedFile' = IF cacheExists THEN indexedFile ELSE EmptyObject
    /\ oldFile' = IF cacheExists THEN oldFile ELSE EmptyObject
    /\ gauges' = EmptyObject
    /\ indexedGauges' = EmptyObject
    /\ oldIndexedGauges' = EmptyObject
    /\ deltas' = EmptyObject
    /\ arrNotableEvents' = <<>>
    /\ arrTelegramNotifications' = <<>>
    /\ arrBatches' = <<>>
    /\ rotations' = 0
    /\ history' = [history EXCEPT
                      !.interrupted = InterruptedSnapshot(config, pc, indexedGauges, indexedFile),
                      !.created = ~cacheExists,
                      !.written = {}]
    /\ UNCHANGED <<auxVars, chain, config, nearCount>>

\* Time passes between two runs until gauges.json is older than the limit.
Elapse ==
    /\ pc \in Stopped
    /\ gaugesFresh
    /\ gaugesFresh' = FALSE
    /\ UNCHANGED <<auxVars, chain, cacheExists, indexedFile, oldFile, config, pc, gauges,
                   indexedGauges, oldIndexedGauges, deltas, arrNotableEvents,
                   arrTelegramNotifications, arrBatches, rotations, nearCount, history>>

\* isRateLimitCheckOk(): ageInSeconds > config.API.RATE_LIMIT_SECONDS
isRateLimitCheckOk == ~gaugesFresh

\* fetchGauges with the rotation of the indexed snapshot made before the
\* rate limit check.
fetchGauges_RotatesFirst ==
    /\ pc = "fetch"
    /\ oldFile' = save_oldIndexedGauges(config, indexedFile, oldFile)
    /\ rotations' = rotations + CopiesMade(config)
    /\ \/ /\ gaugesFresh
          /\ pc' = "exit_ratelimit"
          /\ history' = Writes(history, OldCopyWritten(config))
          /\ UNCHANGED <<chain, gaugesFresh, gauges>>
       \/ /\ ~gaugesFresh
          /\ pc' = "exit_api"
          /\ history' = Writes(history, OldCopyWritten(config))
          /\ UNCHANGED <<chain, gaugesFresh, gauges>>
       \/ /\ ~gaugesFresh
          /\ \/ /\ gauges' = EmptyObject
                /\ chain' = chain
             \/ \E y \in LaterChains(chain) : \E data \in DataLists(y) :
                    /\ gauges' = [data |-> data]
                    /\ chain' = y
          /\ gaugesFresh' = TRUE
          /\ history' = Writes(history, OldCopyWritten(config) \cup {"gauges.json"})
          /\ pc' = "fetched"
    /\ UNCHANGED <<auxVars, cacheExists, indexedFile, config, indexedGauges, oldIndexedGauges,
                   deltas, arrNotableEvents, arrTelegramNotifications, arrBatches, nearCount>>

\* fetchGauges(): the rate limit check, the API call, the rotation of the
\* indexed snapshot, the write of gauges.json.
fetchGauges ==
    /\ pc = "fetch"
    /\ \/ /\ ~isRateLimitCheckOk
          /\ pc' = "exit_ratelimit"
          /\ UNCHANGED <<chain, gaugesFresh, oldFile, gauges, rotations, history>>
       \/ /\ isRateLimitCheckOk
          /\ pc' = "exit_api"                     \* the API cannot be reached
          /\ UNCHANGED <<chain, gaugesFresh, oldFile, gauges, rotations, history>>
       \/ /\ isRateLimitCheckOk
          /\ \/ /\ gauges' = EmptyObject          \* a JSON answer without data
                /\ chain' = chain
             \/ \E y \in LaterChains(chain) : \E data \in DataLists(y) :
                    /\ gauges' = [data |-> data]
                    /\ chain' = y
          /\ oldFile' = save_oldIndexedGauges(config, indexedFile, oldFile)
          /\ rotations' = rotations + CopiesMade(config)
          /\ gaugesFresh' = TRUE
          /\ history' = Writes(history, OldCopyWritten(config) \cup {"gauges.json"})
          /\ pc' = "fetched"
    /\ UNCHANGED <<auxVars, cacheExists, indexedFile, config, indexedGauges, oldIndexedGauges,
                   deltas, arrNotableEvents, arrTelegramNotifications, arrBatches, nearCount>>

\* main, step 1: if (!gauges?.data) the run goes on only with IGNORE_EMPTY_DATA.
Main_checkGauges ==
    /\ pc = "fetched"
    /\ pc' = IF "data" \in DOMAIN gauges \/ config.IGNORE_EMPTY_DATA
             THEN "index" ELSE "exit_nodata"
    /\ UNCHANGED <<auxVars, chain, cacheExists, gaugesFresh, indexedFile, oldFile, config, gauges,
                   indexedGauges, oldIndexedGauges, deltas, arrNotableEvents,
                   arrTelegramNotifications, arrBatches, rotations, nearCount, history>>

\* main, step 3: index the list and save it; gauges.data.forEach throws
\* without a data list, and nothing is saved.
Main_indexGauges ==
    /\ pc = "index"
    /\ IF "data" \in DOMAIN gauges
       THEN /\ indexedGauges' = IndexGauges(gauges["data"], EmptyObject)
            /\ indexedFile' = save_indexedGauges(indexedGauges')
            /\ history' = PresentOnly(Writes(history, {"indexed-gauges.json"}),
                                       indexedGauges')
       ELSE UNCHANGED <<indexedGauges, indexedFile, history>>
    /\ pc' = "diff"
    /\ UNCHANGED <<auxVars, chain, cacheExists, gaugesFresh, oldFile, config, gauges,
                   oldIndexedGauges, deltas, arrNotableEvents,
                   arrTelegramNotifications, arrBatches, rotations, nearCount>>

\* main, step 4: load the previous snapshot and diff every gauge against it.
Main_createDeltas ==
    /\ pc = "diff"
    /\ oldIndexedGauges' = get_oldIndexedGauges(oldFile)
    /\ deltas' = CreateDeltas(oldIndexedGauges', indexedGauges)
    /\ history' = Writes(history, {"deltas.json"})
    /\ pc' = "classify"
    /\ UNCHANGED <<auxVars, chain, cacheExists, gaugesFresh, indexedFile, oldFile, config, gauges,
                   indexedGauges, arrNotableEvents, arrTelegramNotifications, arrBatches,
                   rotations, nearCount>>

\* main, second step 4: processDeltas; the process may end in a lookup.
Main_processDeltas ==
    /\ pc = "classify"
    /\ \E refOk \in BOOLEAN :
          LET res == processDeltas(deltas, indexedGauges, refOk)
          IN IF res.exit
             THEN /\ pc' = "exit_lookup"
                  /\ nearCount' = [id \in GaugeIds |-> 0]
                  /\ UNCHANGED <<arrNotableEvents, history>>
             ELSE /\ pc' = "rotate"
                  /\ arrNotableEvents' = res.events
                  /\ history' = Writes(history, {"notable-events.json"})
                  /\ UNCHANGED nearCount
    /\ UNCHANGED <<auxVars, chain, cacheExists, gaugesFresh, indexedFile, oldFile, config, gauges,
                   indexedGauges, oldIndexedGauges, deltas,
                   arrTelegramNotifications, arrBatches,
                   rotations>>

\* main without the rotation at its end.
Main_saveOld_Omitted ==
    /\ pc = "rotate"
    /\ pc' = "notify"
    /\ UNCHANGED <<auxVars, chain, cacheExists, gaugesFresh, indexedFile, oldFile, config, gauges,
                   indexedGauges, oldIndexedGauges, deltas, arrNotableEvents,
                   arrTelegramNotifications, arrBatches, rotations, nearCount, history>>

\* main, step 7: overwrite old indexed gauges with the new one.
Main_saveOld ==
    /\ pc = "rotate"
    /\ oldFile' = save_oldIndexedGauges(config, indexedFile, oldFile)
    /\ rotations' = rotations + CopiesMade(config)
    /\ history' = Writes(history, OldCopyWritten(config))
    /\ pc' = "notify"
    /\ UNCHANGED <<auxVars, chain, cacheExists, gaugesFresh, indexedFile, config, gauges,
                   indexedGauges, oldIndexedGauges, deltas, arrNotableEvents,
                   arrTelegramNotifications, arrBatches, nearCount>>

\* doTelegramNotifications(arrNotableEvents): one text per event of a known
\* type, in the order of the events (a text is named by its event's type).
doTelegramNotifications(events) == [i \in DOMAIN events |-> events[i].type]

\* The "create batches" loop of processTelegramNotifications from the
\* notifications not yet looked at, with arrBatches and currentBatch so far.
RECURSIVE CreateBatches(_, _, _)
CreateBatches(notifications, batches, currentBatch) ==
    IF notifications = <<>>
    THEN IF Len(currentBatch) > 0 THEN Append(batches, currentBatch) ELSE batches
    ELSE IF Len(currentBatch) < NOTIFICATION_BATCH_LIMIT
         THEN CreateBatches(Tail(notifications), batches,
                  Append(currentBatch, [batchNumber |-> Len(batches) + 1,
                                        notificationNumber |-> Len(currentBatch) + 1,
                                        txt |-> Head(notifications)]))
         ELSE CreateBatches(Tail(notifications), Append(batches, currentBatch), <<>>)

\* processTelegramNotifications(arrTelegramNotifications): the batches, each
\* of which a timer hands to processTelegramNotificationBatch.
processTelegramNotifications(notifications) == CreateBatches(notifications, <<>>, <<>>)

\* main, last step: the notifications; the run is complete.
Main_notify ==
    /\ pc = "notify"
    /\ arrTelegramNotifications' = doTelegramNotifications(arrNotableEvents)
    /\ arrBatches' = processTelegramNotifications(arrTelegramNotifications')
    /\ nearCount' = NearCountAfter(nearCount, oldIndexedGauges, indexedGauges,
                                   arrNotableEvents)
    /\ history' = AnnouncedAfter(config, history, arrNotableEvents)
    /\ pc' = "done"
    /\ UNCHANGED <<auxVars, chain, cacheExists, gaugesFresh, indexedFile, oldFile, config, gauges,
                   indexedGauges, oldIndexedGauges, deltas, arrNotableEvents, rotations>>

Next ==
    \/ initializeFiles
    \/ Elapse
    \/ fetchGauges
    \/ Main_checkGauges
    \/ Main_indexGauges
    \/ Main_createDeltas
    \/ Main_processDeltas
    \/ Main_saveOld
    \/ Main_notify

Spec == Init /\ [][Next]_vars

(***************************************************************************)
(* Properties                                                              *)
(***************************************************************************)
\* processDeltas has returned in the current run.
Classified == pc \in {"rotate", "notify", "done"}

\* The deltas of the current run exist.
Diffed == pc \in {"classify", "exit_lookup", "rotate", "notify", "done"}

DefaultConfig == ~config.IGNORE_EMPTY_DATA /\ ~config.SKIP_SAVE_OLD_INDEXED_GAUGES

NewTypes == {"NEW_EXTERNAL_GAUGE", "NEW_INTERNAL_GAUGE", "NEW_SUPERFLUID_GAUGE"}

\* The ids of the new snapshot that the previous snapshot does not have.
AddedIds == DOMAIN indexedGauges \ DOMAIN oldIndexedGauges

\* The types of the NEW_* events emitted for gauge id.
NewEventsOf(id) ==
    {arrNotableEvents[i].type : i \in {j \in DOMAIN arrNotableEvents :
        EventKey(arrNotableEvents[j]) = id /\ arrNotableEvents[j].type \in NewTypes}}

RemainingDays(g) == g.num_epochs_paid_over - g.filled_epochs

\* bondDurationDays (duration seconds / 86400) equals remainingDays.
BondEqualsRemaining(g) ==
    /\ g.distribute_to.present
    /\ g.distribute_to.numeric
    /\ g.distribute_to.duration = SecondsPerDay * RemainingDays(g)

\* C1 (as claimed): a run that finds no previous snapshot does no diffing and
\* ends with zero notable events, however many gauges it fetched.
C1_BootstrapIsSilent ==
    (Classified /\ DOMAIN oldIndexedGauges = {})
        => (DOMAIN deltas = {} /\ arrNotableEvents = <<>>)

\* C2 (as claimed): a completed run without the do-not-persist override has
\* executed the rotation save_oldIndexedGauges exactly once.
C2_RotatesExactlyOnce ==
    (pc = "done" /\ ~config.SKIP_SAVE_OLD_INDEXED_GAUGES) => rotations = 1

\* C2 (amended): without the override a completed run has executed the
\* rotation exactly twice (in fetchGauges and at the end of main), a run
\* that stopped for missing data or in a lookup once, and a run that stopped
\* in fetchGauges before the fetch succeeded not at all.
C2_RotatesTwice ==
    ~config.SKIP_SAVE_OLD_INDEXED_GAUGES =>
        /\ pc = "done" => rotations = 2
        /\ pc \in {"exit_nodata", "exit_lookup"} => rotations = 1
        /\ pc \in {"exit_ratelimit", "exit_api"} => rotations = 0

C2_Witness ==
    pc = "done" /\ ~config.SKIP_SAVE_OLD_INDEXED_GAUGES /\ rotations = 2
    /\ DOMAIN indexedGauges # {}

\* C3: processDeltas emits NEAR_EXPIRATION for a gauge exactly when its delta
\* has filled_epochs, the gauge is not perpetual and bondDurationDays equals
\* remainingDays; a perpetual gauge never yields it.
C3_NearExpirationIff ==
    Classified =>
        \A id \in GaugeIds :
            EmitsFor(arrNotableEvents, "NEAR_EXPIRATION", id)
            <=> /\ id \in DOMAIN deltas
                /\ "filled_epochs" \in DOMAIN deltas[id]
                /\ ~indexedGauges[id].is_perpetual
                /\ BondEqualsRemaining(indexedGauges[id])

C3_Witness ==
    /\ Classified
    /\ \E id \in DOMAIN deltas :
          /\ EmitsFor(arrNotableEvents, "NEAR_EXPIRATION", id)
          /\ "id" \notin DOMAIN deltas[id]
    /\ \E id \in DOMAIN deltas :
          /\ "filled_epochs" \in DOMAIN deltas[id]
          /\ indexedGauges[id].is_perpetual
          /\ BondEqualsRemaining(indexedGauges[id])
          /\ ~EmitsFor(arrNotableEvents, "NEAR_EXPIRATION", id)

\* C4: in the default configuration, over completed runs in which a
\* non-perpetual gauge gains one filled epoch per run with its duration and
\* num_epochs_paid_over fixed, at most one run emits NEAR_EXPIRATION for it,
\* and a run in which its filled_epochs did not change does not emit it.
C4_NearExpirationSingleFire ==
    DefaultConfig =>
        /\ \A id \in GaugeIds : nearCount[id] <= 1
        /\ Classified =>
              \A id \in DOMAIN indexedGauges \cap DOMAIN oldIndexedGauges :
                  indexedGauges[id].filled_epochs = oldIndexedGauges[id].filled_epochs
                      => ~EmitsFor(arrNotableEvents, "NEAR_EXPIRATION", id)

C4_Witness ==
    /\ DefaultConfig
    /\ pc = "done"
    /\ \E id \in GaugeIds :
          /\ NextEpochOf(oldIndexedGauges, indexedGauges, id)
          /\ nearCount[id] = 1
          /\ ~EmitsFor(arrNotableEvents, "NEAR_EXPIRATION", id)

\* C5: a gauge id of the new snapshot that the old one lacks has a delta in
\* which every field is added, and classification yields at most one event
\* for it among the NEW_* types.
C5_AddedKeyDetection ==
    Classified =>
        \A id \in AddedIds :
            /\ id \in DOMAIN deltas
            /\ \A f \in DOMAIN indexedGauges[id] :
                  f \in DOMAIN deltas[id] /\ deltas[id][f] = <<indexedGauges[id][f]>>
            /\ Cardinality({i \in DOMAIN arrNotableEvents :
                              /\ EventKey(arrNotableEvents[i]) = id
                              /\ arrNotableEvents[i].type \in NewTypes}) <= 1
            /\ \A i \in DOMAIN arrNotableEvents :
                  EventKey(arrNotableEvents[i]) = id
                      => arrNotableEvents[i].type \in NewTypes \cup {"NEAR_EXPIRATION"}

C5_Witness ==
    /\ Classified
    /\ DOMAIN oldIndexedGauges # {}
    /\ \E id \in AddedIds :
          /\ Cardinality(NewEventsOf(id)) = 1
          /\ \A f \in DOMAIN indexedGauges[id] : deltas[id][f] = <<indexedGauges[id][f]>>

\* C6 (as claimed): two gauges of the same pool, both with the superfluid
\* marker and both added in this run, give exactly one NEW_SUPERFLUID_GAUGE
\* event for the pool.
C6_SuperfluidDedup ==
    Classified =>
        \A a \in AddedIds : \A b \in AddedIds \ {a} :
            LET ga == indexedGauges[a]
                gb == indexedGauges[b]
            IN (/\ ga.distribute_to.present /\ gb.distribute_to.present
                /\ HasSuperbonding(ga.distribute_to.denom)
                /\ HasSuperbonding(gb.distribute_to.denom)
                /\ getPoolIdFromGauge(ga) = getPoolIdFromGauge(gb)
                /\ RemainingDays(ga) >= 0 /\ RemainingDays(gb) >= 0)
               => Cardinality({i \in DOMAIN arrNotableEvents :
                                  /\ arrNotableEvents[i].type = "NEW_SUPERFLUID_GAUGE"
                                  /\ arrNotableEvents[i].poolId = getPoolIdFromGauge(ga)}) = 1

\* C7 (as claimed): an added gauge with remainingDays >= 0 and the superfluid
\* marker is NEW_SUPERFLUID_GAUGE exactly when no other gauge of the snapshot
\* has a denom containing /<poolId>/superbonding, whatever the type of its id.
C7_SuperfluidIffNoOther ==
    Classified =>
        \A id \in AddedIds :
            LET g == indexedGauges[id]
            IN (/\ g.distribute_to.present
                /\ HasSuperbonding(g.distribute_to.denom)
                /\ RemainingDays(g) >= 0)
               => (EmitsFor(arrNotableEvents, "NEW_SUPERFLUID_GAUGE", id)
                   <=> ~\E other \in DOMAIN indexedGauges \ {id} :
                          /\ indexedGauges[other].distribute_to.present
                          /\ IncludesPoolSuperbonding(
                                 indexedGauges[other].distribute_to.denom,
                                 getPoolIdFromGauge(g)))

\* The event types the decision table of C8 gives a gauge without marker.
TableTypes(g) ==
    IF RemainingDays(g) < 0 THEN {}
    ELSE IF g.is_perpetual /\ Len(g.coins) > 0 /\ g.coins[1] = "uosmo"
         THEN {"NEW_INTERNAL_GAUGE"}
    ELSE IF g.is_perpetual /\ Len(g.coins) = 0 THEN {}
    ELSE {"NEW_EXTERNAL_GAUGE"}

\* C8: for a delta with an id that resolves to a gauge (with the fields of
\* the data model) without the superfluid marker, gauge_isNew follows the
\* decision table: nothing when remainingDays < 0, NEW_INTERNAL_GAUGE when
\* perpetual with uosmo as first coin, nothing when perpetual without coins,
\* NEW_EXTERNAL_GAUGE otherwise.
C8_NewGaugeTable ==
    Classified =>
        \A id \in DOMAIN deltas :
            ("id" \in DOMAIN deltas[id] /\ DeltaIdKey(deltas[id]["id"]) = id
             /\ indexedGauges[id].distribute_to.present
             /\ ~HasSuperbonding(indexedGauges[id].distribute_to.denom))
                => NewEventsOf(id) = TableTypes(indexedGauges[id])

C8_Witness ==
    /\ Classified
    /\ \E id \in DOMAIN deltas : NewEventsOf(id) = {"NEW_INTERNAL_GAUGE"}
    /\ \E id \in DOMAIN deltas :
          /\ "id" \in DOMAIN deltas[id]
          /\ indexedGauges[id].is_perpetual
          /\ indexedGauges[id].coins # <<>>
          /\ NewEventsOf(id) = {"NEW_EXTERNAL_GAUGE"}

\* The deltas C9 is about: id and filled_epochs of a non-perpetual gauge
\* with bondDurationDays == remainingDays >= 0.
NewAndExpiring(id) ==
    /\ id \in DOMAIN deltas
    /\ "id" \in DOMAIN deltas[id]
    /\ "filled_epochs" \in DOMAIN deltas[id]
    /\ ~indexedGauges[id].is_perpetual
    /\ BondEqualsRemaining(indexedGauges[id])
    /\ RemainingDays(indexedGauges[id]) >= 0

C10_DeltaKeys ==
    Diffed =>
        DOMAIN deltas = {id \in DOMAIN indexedGauges :
                            \/ id \notin DOMAIN oldIndexedGauges
                            \/ oldIndexedGauges[id] # indexedGauges[id]}

C10_Witness ==
    /\ Diffed
    /\ \E id \in DOMAIN indexedGauges \cap DOMAIN oldIndexedGauges :
          id \notin DOMAIN deltas
    /\ \E id \in DOMAIN indexedGauges \cap DOMAIN oldIndexedGauges :
          id \in DOMAIN deltas /\ DOMAIN deltas[id] = {"coins"}

\* The ids of the old snapshot that the new snapshot does not have.
RemovedIds == DOMAIN oldIndexedGauges \ DOMAIN indexedGauges

\* C11: a gauge id of the old snapshot that is absent from the new one has
\* no key in the deltas and no notable event of any type in the run.
C11_RemovedGaugesSilent ==
    /\ Diffed => RemovedIds \cap DOMAIN deltas = {}
    /\ Classified =>
          \A id \in RemovedIds : \A i \in DOMAIN arrNotableEvents :
              EventKey(arrNotableEvents[i]) # id

C11_Witness ==
    /\ pc = "done"
    /\ RemovedIds # {}
    /\ DOMAIN deltas # {}
    /\ arrNotableEvents # <<>>

\* C12: when the old and the new indexed snapshots are the same mapping, the
\* deltas have no key at all and the run emits zero notable events.
C12_DiffEmptiness ==
    /\ (Diffed /\ oldIndexedGauges = indexedGauges) => DOMAIN deltas = {}
    /\ (Classified /\ oldIndexedGauges = indexedGauges) => arrNotableEvents = <<>>

C12_Witness ==
    /\ pc = "done"
    /\ oldIndexedGauges = indexedGauges
    /\ Cardinality(DOMAIN indexedGauges) = 2
    /\ deltas = EmptyObject
    /\ arrTelegramNotifications = <<>>

\* C13: every ordering of the fetched gauge list (its ids are unique) is
\* indexed to the same mapping id -> gauge, the one the run builds, and so
\* gives the same delta keys against the old snapshot.
C13_IndexOrderIndependent ==
    "data" \in DOMAIN gauges =>
        /\ \A list \in Orderings(gauges["data"]) :
              /\ IndexGauges(list, EmptyObject) = chain
              /\ DOMAIN CreateDeltas(get_oldIndexedGauges(oldFile),
                                     IndexGauges(list, EmptyObject))
                 = DOMAIN CreateDeltas(get_oldIndexedGauges(oldFile), chain)
        /\ Diffed => indexedGauges = chain

C13_Witness ==
    /\ pc = "done"
    /\ "data" \in DOMAIN gauges
    /\ Len(gauges["data"]) = 2
    /\ gauges["data"] # DataList(chain, 1)
    /\ indexedGauges = chain
    /\ DOMAIN deltas # {}

\* A gauge with a missing or malformed field.
Malformed(g) == ~g.distribute_to.present \/ ~g.distribute_to.numeric

WellFormedIds == {id \in DOMAIN indexedGauges : ~Malformed(indexedGauges[id])}

Restrict(f, S) == [k \in DOMAIN f \cap S |-> f[k]]

\* The events of the run for the gauges in S, in their order.
EventsOf(S) == SelectSeq(arrNotableEvents, LAMBDA e : EventKey(e) \in S)

\* C14 (as claimed): a gauge with a missing or malformed field contributes no
\* event, and the run's events for the other gauges are the ones processDeltas
\* returns for them when the malformed gauges are not there.
C14_FailureIsolation ==
    Classified =>
        /\ EventsOf(DOMAIN indexedGauges \ WellFormedIds) = <<>>
        /\ EventsOf(WellFormedIds)
           = processDeltas(Restrict(deltas, WellFormedIds),
                           Restrict(indexedGauges, WellFormedIds), TRUE).events

\* C15 (as claimed): for the deltas and the snapshot of a run, processDeltas
\* gives the same events and the run goes on or ends alike whether the pool
\* and asset lookups return (resolved or not) or fail.
C15_LookupsDoNotInfluence ==
    pc = "classify" =>
        processDeltas(deltas, indexedGauges, FALSE)
            = processDeltas(deltas, indexedGauges, TRUE)

\* The texts of the batches, in the order of their dispatch.
RECURSIVE BatchTexts(_)
BatchTexts(batches) ==
    IF batches = <<>> THEN <<>>
    ELSE [i \in DOMAIN Head(batches) |-> Head(batches)[i].txt] \o BatchTexts(Tail(batches))

\* C16 (as claimed): the messages are the events' types in the events' order,
\* one per event, and every message is in a batch that is dispatched, in the
\* same order.
C16_FormatterKeepsEvents ==
    pc = "done" =>
        /\ arrTelegramNotifications = [i \in DOMAIN arrNotableEvents |->
                                          arrNotableEvents[i].type]
        /\ BatchTexts(arrBatches) = arrTelegramNotifications

(***************************************************************************)
(* A run from a given fetch: the steps of main after fetchGauges, for a    *)
(* cache and an API answer drawn around the end-to-end scenario            *)
(***************************************************************************)
\* Gauge 1 of the scenario: perpetual, with filled epochs f of epochs.
ScenarioPerpetual(f, epochs) ==
    Gauge("1", GaugeBody(FALSE, TRUE, epochs, f,
                         DistributeTo(PoolDenom("1"), 7 * SecondsPerDay), <<"uosmo">>))

\* Gauge 2 of the scenario and its neighbours.
ScenarioAdded(perpetual, epochs, seconds) ==
    Gauge("2", GaugeBody(FALSE, perpetual, epochs, 0,
                         DistributeTo(PoolDenom("2"), seconds), <<"uosmo">>))

ScenarioOldSnapshots ==
    {[k \in {"1"} |-> ScenarioPerpetual(f, epochs)] : f \in {4, 5}, epochs \in {1, 13}}

ScenarioAnswers(old) ==
    UNION {Orderings(<<[old["1"] EXCEPT !.filled_epochs = @ + d],
                       ScenarioAdded(perpetual, epochs, seconds)>>) :
              d \in {0, 1}, perpetual \in BOOLEAN, epochs \in {6, 7},
              seconds \in {SecondsPerDay, 7 * SecondsPerDay}}

\* The run has fetched: gauges.json and the rotation of fetchGauges are done.
InitScenario ==
    /\ config \in Configs
    /\ oldFile \in ScenarioOldSnapshots
    /\ indexedFile = oldFile
    /\ \E data \in ScenarioAnswers(oldFile) :
          /\ gauges = [data |-> data]
          /\ chain = IndexGauges(data, EmptyObject)
    /\ cacheExists = TRUE
    /\ gaugesFresh = TRUE
    /\ pc = "index"
    /\ indexedGauges = EmptyObject
    /\ oldIndexedGauges = EmptyObject
    /\ deltas = EmptyObject
    /\ arrNotableEvents = <<>>
    /\ arrTelegramNotifications = <<>>
    /\ arrBatches = <<>>
    /\ reference = ReferenceAtInstall
    /\ call = NoCall
    /\ telegram = NoDelivery
    /\ api = NoApiCall
    /\ overlap = NoOverlap
    /\ rotations = CopiesMade(config)
    /\ nearCount = [id \in GaugeIds |-> 0]
    /\ history = NoHistory

NextScenario ==
    \/ Main_indexGauges
    \/ Main_createDeltas
    \/ Main_processDeltas
    \/ Main_saveOld
    \/ Main_notify

SpecScenario == InitScenario /\ [][NextScenario]_vars

\* The snapshots of the end-to-end scenario: gauge 1 perpetual with
\* filled_epochs 5, then 6; gauge 2 new, non-perpetual, 7 epochs, none
\* filled, duration "604800s", coins [uosmo].
IsScenario ==
    /\ DOMAIN oldIndexedGauges = {"1"}
    /\ oldIndexedGauges["1"].is_perpetual
    /\ oldIndexedGauges["1"].filled_epochs = 5
    /\ DOMAIN indexedGauges = {"1", "2"}
    /\ indexedGauges["1"] = [oldIndexedGauges["1"] EXCEPT !.filled_epochs = 6]
    /\ indexedGauges["2"] = ScenarioAdded(FALSE, 7, 604800)

\* C17: in the end-to-end scenario the delta keys are exactly {1, 2}, the
\* classification yields one NEW_EXTERNAL_GAUGE event for gauge 2, with
\* remainingDays 7 and bondDurationDays 7, and no NEAR_EXPIRATION event for
\* gauge 1.
C17_EndToEndScenario ==
    (Classified /\ IsScenario) =>
        /\ DOMAIN deltas = {"1", "2"}
        /\ Cardinality({i \in DOMAIN arrNotableEvents :
                          /\ arrNotableEvents[i].type = "NEW_EXTERNAL_GAUGE"
                          /\ EventKey(arrNotableEvents[i]) = "2"
                          /\ arrNotableEvents[i].remainingDays = 7
                          /\ arrNotableEvents[i].bondDurationDays
                             = [nan |-> FALSE, whole |-> 7, rest |-> 0]}) = 1
        /\ NewEventsOf("2") = {"NEW_EXTERNAL_GAUGE"}
        /\ NewEventsOf("1") = {}
        /\ ~EmitsFor(arrNotableEvents, "NEAR_EXPIRATION", "1")

C17_Witness ==
    /\ pc = "done"
    /\ IsScenario
    /\ indexedGauges["1"].num_epochs_paid_over = 13
    /\ gauges["data"][1].id.v = "2"
    /\ EmitsFor(arrNotableEvents, "NEW_EXTERNAL_GAUGE", "2")

\* C18 (as claimed): when the fetch fails or its answer has no data list,
\* the run aborts before indexing without IGNORE_EMPTY_DATA, and with it
\* goes on to completion with empty defaults and zero events.
C18_MissingDataOverride ==
    /\ pc \in {"exit_api", "exit_nodata"} => ~config.IGNORE_EMPTY_DATA
    /\ (~config.IGNORE_EMPTY_DATA /\ "data" \notin DOMAIN gauges)
          => pc \in {"idle", "fetch", "fetched", "exit_ratelimit", "exit_api", "exit_nodata"}
    /\ (Classified /\ "data" \notin DOMAIN gauges)
          => /\ indexedGauges = EmptyObject
             /\ deltas = EmptyObject
             /\ arrNotableEvents = <<>>

\* C19: while SKIP_SAVE_OLD_INDEXED_GAUGES is set, no step of a run changes
\* the previous snapshot indexed-gauges-old.json, whatever is fetched and
\* wherever the run ends.
C19_DoNotPersist ==
    [][config.SKIP_SAVE_OLD_INDEXED_GAUGES => oldFile' = oldFile]_vars

\* A run with the switch set has completed: indexed-gauges.json has gauges,
\* and neither of the copies the run came to has been made.
C19_Witness ==
    /\ config.SKIP_SAVE_OLD_INDEXED_GAUGES
    /\ pc = "done"
    /\ rotations = 0
    /\ Cardinality(DOMAIN indexedFile) = 2
    /\ oldFile = EmptyObject
    /\ oldIndexedGauges = oldFile
    /\ arrNotableEvents # <<>>

(***************************************************************************)
(* The lookups in the reference data, on a cache directory in any state    *)
(* the three files can be in                                               *)
(***************************************************************************)
ReferenceFiles == {"indexedPools", "indexedAssetlist", "assetlist"}

InitReference ==
    /\ chain = EmptyObject
    /\ cacheExists = TRUE
    /\ gaugesFresh = FALSE
    /\ indexedFile = EmptyObject
    /\ oldFile = EmptyObject
    /\ config \in Configs
    /\ pc = "idle"
    /\ gauges = EmptyObject
    /\ indexedGauges = EmptyObject
    /\ oldIndexedGauges = EmptyObject
    /\ deltas = EmptyObject
    /\ arrNotableEvents = <<>>
    /\ arrTelegramNotifications = <<>>
    /\ arrBatches = <<>>
    /\ rotations = 0
    /\ nearCount = [id \in GaugeIds |-> 0]
    /\ history = NoHistory
    /\ \E files \in [ReferenceFiles -> CacheFiles] :
          reference = [indexedPools |-> files.indexedPools,
                       indexedAssetlist |-> files.indexedAssetlist,
                       assetlist |-> files.assetlist, alive |-> TRUE,
                       lookup |-> Lookup("none", files, FALSE, FALSE)]
    /\ call = NoCall
    /\ telegram = NoDelivery
    /\ api = NoApiCall
    /\ overlap = NoOverlap

\* getPoolInfo(poolId): const indexedPools = await getIndexedPools()
PoolLookup ==
    /\ reference.alive
    /\ \E answer \in PoolAnswers :
          LET res == getIndexedPools(reference.indexedPools, answer)
          IN reference' = [reference EXCEPT !.indexedPools = res.file,
                                            !.alive = ~res.exit,
                                            !.lookup = Lookup("pools", reference, res.fetched, res.exit)]
    /\ UNCHANGED runVars

\* assetLookupFromAssetlist(denom): const indexedAssetlist = await getIndexedAssetList()
AssetLookup ==
    /\ reference.alive
    /\ \E answer \in AssetlistAnswers :
          LET res == getIndexedAssetList(reference.indexedAssetlist, reference.assetlist,
                                         answer)
          IN reference' = [reference EXCEPT !.indexedAssetlist = res.indexed,
                                            !.assetlist = res.raw,
                                            !.alive = ~res.exit,
                                            !.lookup = Lookup("assets", reference, res.fetched, res.exit)]
    /\ UNCHANGED runVars

\* A cache file gets older than its TTL.
CacheAges ==
    /\ \E f \in ReferenceFiles :
          /\ reference[f].fresh
          /\ reference' = [reference EXCEPT ![f].fresh = FALSE]
    /\ UNCHANGED runVars

\* After process.exit(0) the script is started again.
NewProcess ==
    /\ ~reference.alive
    /\ reference' = [reference EXCEPT !.alive = TRUE]
    /\ UNCHANGED runVars

NextReference == PoolLookup \/ AssetLookup \/ CacheAges \/ NewProcess

SpecReference == InitReference /\ [][NextReference]_vars

\* C20 (as claimed): the pool list and the asset list are fetched from the
\* remote source only when the cache file is older than its TTL; a lookup
\* that finds the file younger than its TTL fetches nothing, whatever the
\* file holds.
C20_FetchOnlyWhenExpired ==
    /\ (reference.lookup.kind = "pools" /\ reference.lookup.indexedPools.fresh)
          => ~reference.lookup.fetched
    /\ (reference.lookup.kind = "assets" /\ reference.lookup.assetlist.fresh)
          => ~reference.lookup.fetched

\* C20 (amended): a lookup fetches the pool list exactly when
\* indexed-pools.json is older than its TTL or holds the empty object, and
\* the asset list exactly when that is so of indexed-assetlist.json and of
\* assetlist.json as well; a file younger than its TTL that holds entries is
\* used as it is, and one that does not parse ends the process.
C20_FetchWhenExpiredOrEmpty ==
    LET last == reference.lookup
        stale(file) == ~file.fresh \/ file.content = "empty"
    IN /\ last.kind = "pools" => (last.fetched <=> stale(last.indexedPools))
       /\ last.kind = "assets" =>
             (last.fetched <=> stale(last.indexedAssetlist) /\ stale(last.assetlist))
       /\ (last.kind = "pools" /\ last.indexedPools = CacheFile("unreadable", TRUE))
             => last.exit
       /\ (last.kind = "pools" /\ last.indexedPools = CacheFile("filled", TRUE))
             => ~last.exit

C20_Witness ==
    /\ reference.lookup.kind = "pools"
    /\ reference.lookup.indexedPools = CacheFile("empty", TRUE)
    /\ reference.lookup.fetched
    /\ ~reference.lookup.exit
    /\ reference.indexedPools = CacheFile("filled", TRUE)

(***************************************************************************)
(* getPoolIdFromGauge on every distribute_to of a bounded catalogue        *)
(***************************************************************************)
DenomTokens == {"gamm", "superbonding"} \cup DigitRuns

MaxDenomLen == 2

Denoms == UNION {[1..n -> DenomTokens] : n \in 0..MaxDenomLen}

PoolIdInputs == {NoDistributeTo} \cup {DistributeTo(denom, SecondsPerDay) : denom \in Denoms}

\* No run of main has started.
NoRun ==
    /\ chain = EmptyObject
    /\ cacheExists = TRUE
    /\ gaugesFresh = FALSE
    /\ indexedFile = EmptyObject
    /\ oldFile = EmptyObject
    /\ config \in Configs
    /\ pc = "idle"
    /\ gauges = EmptyObject
    /\ indexedGauges = EmptyObject
    /\ oldIndexedGauges = EmptyObject
    /\ deltas = EmptyObject
    /\ arrNotableEvents = <<>>
    /\ arrTelegramNotifications = <<>>
    /\ arrBatches = <<>>
    /\ rotations = 0
    /\ nearCount = [id \in GaugeIds |-> 0]
    /\ history = NoHistory

InitPoolId ==
    /\ NoRun
    /\ reference = ReferenceAtInstall
    /\ telegram = NoDelivery
    /\ api = NoApiCall
    /\ overlap = NoOverlap
    /\ \E target \in PoolIdInputs :
          call = [fn |-> "getPoolIdFromGauge", input |-> target, output |-> <<>>,
                  done |-> FALSE]

\* const poolId = getPoolIdFromGauge(gauge)
CallGetPoolIdFromGauge ==
    /\ call.fn = "getPoolIdFromGauge"
    /\ ~call.done
    /\ call' = [call EXCEPT
                  !.output = getPoolIdFromGauge(GaugeBody(FALSE, FALSE, 2, 0, call.input,
                                                          <<"uosmo">>)),
                  !.done = TRUE]
    /\ UNCHANGED stateVars

NextPoolId == CallGetPoolIdFromGauge

SpecPoolId == InitPoolId /\ [][NextPoolId]_vars

\* The position of the first digit run in a denom, 0 when it has none.
FirstRunAt(denom) ==
    IF \E i \in DOMAIN denom : denom[i] \in DigitRuns
    THEN CHOOSE i \in DOMAIN denom :
            /\ denom[i] \in DigitRuns
            /\ \A j \in 1..(i - 1) : denom[j] \notin DigitRuns
    ELSE 0

\* C21 (as claimed): getPoolIdFromGauge returns the first run of decimal
\* digits of distribute_to.denom as a string, and "NaN" for a denom without
\* digits or a gauge without distribute_to.denom.
C21_FirstDigitRunReturned ==
    (call.fn = "getPoolIdFromGauge" /\ call.done) =>
        LET target == call.input
            at == IF target.present THEN FirstRunAt(target.denom) ELSE 0
        IN call.output = IF at = 0 THEN "NaN" ELSE target.denom[at]

\* C21 (amended): getPoolIdFromGauge returns the decimal numeral, written
\* without leading zeros, of the number the first run of decimal digits of
\* distribute_to.denom denotes, and "NaN" for a denom without digits or a
\* gauge without distribute_to.denom.
C21_FirstDigitRunAsNumber ==
    (call.fn = "getPoolIdFromGauge" /\ call.done) =>
        LET target == call.input
            at == IF target.present THEN FirstRunAt(target.denom) ELSE 0
        IN IF at = 0 THEN call.output = "NaN"
           ELSE /\ call.output \in DigitRuns
                /\ ParseInt(DigitsOf(call.output)) = ParseInt(DigitsOf(target.denom[at]))
                /\ (DigitsOf(call.output)[1] = 0 => Len(DigitsOf(call.output)) = 1)

C21_Witness ==
    /\ call.fn = "getPoolIdFromGauge"
    /\ call.done
    /\ call.input.present
    /\ call.input.denom = <<"gamm", "002">>
    /\ call.output = "2"

\* C22: when a run ended in a lookup after it had written the indexed
\* snapshot, the run after it (with the rotation not switched off) diffs
\* against that snapshot, and emits no event for a gauge whose entry is the
\* one the interrupted run had written.
C22_NoReattempt ==
    (/\ history.interrupted.written
     /\ ~config.SKIP_SAVE_OLD_INDEXED_GAUGES
     /\ pc \in {"rotate", "notify", "done"}) =>
        LET captured == history.interrupted.snapshot
        IN /\ oldIndexedGauges = captured
           /\ \A i \in DOMAIN arrNotableEvents :
                 LET id == EventKey(arrNotableEvents[i])
                 IN ~(/\ id \in DOMAIN captured
                      /\ id \in DOMAIN indexedGauges
                      /\ indexedGauges[id] = captured[id])

C22_Witness ==
    /\ history.interrupted.written
    /\ ~config.SKIP_SAVE_OLD_INDEXED_GAUGES
    /\ pc = "done"
    /\ arrNotableEvents # <<>>
    /\ \E id \in DOMAIN indexedGauges :
          /\ id \in DOMAIN history.interrupted.snapshot
          /\ indexedGauges[id] = history.interrupted.snapshot[id]

(***************************************************************************)
(* processTelegramNotifications on every list of a bounded length          *)
(***************************************************************************)
MaxNotifications == 4

NotificationTexts == {"NEAR_EXPIRATION", "NEW_EXTERNAL_GAUGE", "NEW_SUPERFLUID_GAUGE"}

NotificationLists == UNION {[1..n -> NotificationTexts] : n \in 0..MaxNotifications}

InitBatches ==
    /\ NoRun
    /\ reference = ReferenceAtInstall
    /\ telegram = NoDelivery
    /\ api = NoApiCall
    /\ overlap = NoOverlap
    /\ \E notifications \in NotificationLists :
          call = [fn |-> "processTelegramNotifications", input |-> notifications,
                  output |-> <<>>, done |-> FALSE]

\* processTelegramNotifications(arrTelegramNotifications)
CallProcessTelegramNotifications ==
    /\ call.fn = "processTelegramNotifications"
    /\ ~call.done
    /\ call' = [call EXCEPT !.output = processTelegramNotifications(call.input),
                            !.done = TRUE]
    /\ UNCHANGED stateVars

NextBatches == CallProcessTelegramNotifications

SpecBatches == InitBatches /\ [][NextBatches]_vars

\* C23 (as claimed): the batches of processTelegramNotifications partition
\* its input: no batch holds more than NOTIFICATION_BATCH_LIMIT notifications
\* and the batches concatenated in order are the input list, so that each
\* notification is in exactly one batch.
C23_BatchesPartitionInput ==
    (call.fn = "processTelegramNotifications" /\ call.done) =>
        /\ \A b \in DOMAIN call.output : Len(call.output[b]) <= NOTIFICATION_BATCH_LIMIT
        /\ BatchTexts(call.output) = call.input

(***************************************************************************)
(* doTelegramNotification: the delivery of one notification to the groups  *)
(* of TG_BOT.GROUP_IDS, with the retries its timers start                  *)
(***************************************************************************)
NOTIFICATION_RETRIES == 1

MaxInvocations == 4

GroupIdLists == {{"g1"}, {"g1", "g2"}}

\* One invocation of doTelegramNotification(notification, retries): the
\* retries variable of its scope (shared by the callbacks of its groups),
\* the groups whose fetch has not settled, the groups with a timer running.
Invocation(groups, retries) == [retries |-> retries, pending |-> groups, timers |-> {}]

\* The callback a timer runs after a failed send:
\* if (retries <= NOTIFICATION_RETRIES) doTelegramNotification(notification, retries++)
RetryCallback(invocation) ==
    IF invocation.retries <= NOTIFICATION_RETRIES
    THEN [invoke |-> TRUE, argument |-> invocation.retries,
          retries |-> invocation.retries + 1]
    ELSE [invoke |-> FALSE, argument |-> 0, retries |-> invocation.retries]

InitTelegram ==
    /\ NoRun
    /\ ~config.IGNORE_EMPTY_DATA
    /\ ~config.SKIP_SAVE_OLD_INDEXED_GAUGES
    /\ reference = ReferenceAtInstall
    /\ call = NoCall
    /\ api = NoApiCall
    /\ overlap = NoOverlap
    /\ \E groups \in GroupIdLists :
          telegram = [groups |-> groups, alive |-> TRUE, invocations |-> <<>>,
                      delivered |-> [g \in groups |-> 0]]

\* processTelegramNotificationBatch: doTelegramNotification(notification)
processTelegramNotificationBatch ==
    /\ telegram.alive
    /\ telegram.invocations = <<>>
    /\ telegram' = [telegram EXCEPT !.invocations = <<Invocation(telegram.groups, 0)>>]
    /\ UNCHANGED <<mainVars, reference, call, api, overlap>>

\* The answer of Telegram to the send of invocation i to group g says ok.
SendAccepted ==
    /\ telegram.alive
    /\ \E i \in DOMAIN telegram.invocations : \E g \in telegram.invocations[i].pending :
          telegram' = [telegram EXCEPT
                          !.invocations[i].pending = @ \ {g},
                          !.delivered[g] = @ + 1]
    /\ UNCHANGED <<mainVars, reference, call, api, overlap>>

\* The answer says not ok: a timer is set, whatever retries is.
SendRefused ==
    /\ telegram.alive
    /\ \E i \in DOMAIN telegram.invocations : \E g \in telegram.invocations[i].pending :
          telegram' = [telegram EXCEPT
                          !.invocations[i].pending = @ \ {g},
                          !.invocations[i].timers = @ \cup {g}]
    /\ UNCHANGED <<mainVars, reference, call, api, overlap>>

\* The fetch rejects: the catch handler reads the undeclared json while it
\* sets the timer, so no timer is set and the rejection it throws is not
\* handled, which ends the process or is only reported.
SendFailed ==
    /\ telegram.alive
    /\ \E i \in DOMAIN telegram.invocations : \E g \in telegram.invocations[i].pending :
       \E survives \in BOOLEAN :
          telegram' = [telegram EXCEPT
                          !.invocations[i].pending = @ \ {g},
                          !.alive = IF telegram.invocations[i].retries <= NOTIFICATION_RETRIES
                                    THEN survives ELSE TRUE]
    /\ UNCHANGED <<mainVars, reference, call, api, overlap>>

\* A timer of invocation i fires.
RetryTimer ==
    /\ telegram.alive
    /\ \E i \in DOMAIN telegram.invocations : \E g \in telegram.invocations[i].timers :
          LET callback == RetryCallback(telegram.invocations[i])
              fired == [telegram.invocations EXCEPT ![i].timers = @ \ {g},
                                                    ![i].retries = callback.retries]
          IN /\ callback.invoke => Len(telegram.invocations) < MaxInvocations
             /\ telegram' = [telegram EXCEPT
                               !.invocations =
                                   IF callback.invoke
                                   THEN Append(fired, Invocation(telegram.groups,
                                                                 callback.argument))
                                   ELSE fired]
    /\ UNCHANGED <<mainVars, reference, call, api, overlap>>

NextTelegram ==
    \/ processTelegramNotificationBatch
    \/ SendAccepted
    \/ SendRefused
    \/ SendFailed
    \/ RetryTimer

SpecTelegram == InitTelegram /\ [][NextTelegram]_vars

\* C24 (as claimed): doTelegramNotification is re-invoked at most a number
\* of times fixed by NOTIFICATION_RETRIES; with one group, whose failed send
\* starts one retry, that is one invocation for each value of retries from 0
\* to NOTIFICATION_RETRIES + 1.
C24_RetryBounded ==
    Cardinality(telegram.groups) = 1 =>
        Len(telegram.invocations) <= NOTIFICATION_RETRIES + 2

\* C29 (as claimed): every group receives the notification at most once,
\* however many sends to other groups fail and are retried.
C29_DeliveredAtMostOnce ==
    \A g \in telegram.groups : telegram.delivered[g] <= 1

(***************************************************************************)
(* callAPI: one call, with the retries it makes of itself                  *)
(***************************************************************************)
MaxRetrySetting == 2

RetrySettings == 0..MaxRetrySetting

InitCallAPI ==
    /\ NoRun
    /\ reference = ReferenceAtInstall
    /\ call = NoCall
    /\ telegram = NoDelivery
    /\ overlap = NoOverlap
    /\ \E attempts \in RetrySettings, notificationRetries \in RetrySettings :
          api = [RETRY_ATTEMPTS |-> attempts, NOTIFICATION_RETRIES |-> notificationRetries,
                 retries |-> 0, at |-> "called"]

\* callAPI(path, retries): if (retries > config.API.RETRY_ATTEMPTS) return res
CallAPI_checkRetries ==
    /\ api.at = "called"
    /\ api' = [api EXCEPT !.at = IF api.retries > api.RETRY_ATTEMPTS
                                 THEN "returned_empty" ELSE "primary"]
    /\ UNCHANGED <<mainVars, reference, call, telegram, overlap>>

\* await fetch(config.API.URL + path): the response, or the failover on a rejection
CallAPI_fetchPrimary ==
    /\ api.at = "primary"
    /\ \E ok \in BOOLEAN :
          api' = [api EXCEPT !.at = IF ok THEN "returned_response" ELSE "failover"]
    /\ UNCHANGED <<mainVars, reference, call, telegram, overlap>>

\* await fetch(config.API.FAILOVER_URL + path): the response, or a new
\* promise with a timer on a rejection
CallAPI_fetchFailover ==
    /\ api.at = "failover"
    /\ \E ok \in BOOLEAN :
          api' = [api EXCEPT !.at = IF ok THEN "returned_response" ELSE "timer"]
    /\ UNCHANGED <<mainVars, reference, call, telegram, overlap>>

\* The timer fires: resolve(callAPI(path, retries + 1)) if
\* retries <= config.TG_BOT.NOTIFICATION_RETRIES, nothing otherwise: the
\* promise is then resolved by nobody.
CallAPI_retryTimer ==
    /\ api.at = "timer"
    /\ api' = IF api.retries <= api.NOTIFICATION_RETRIES
              THEN [api EXCEPT !.retries = @ + 1, !.at = "called"]
              ELSE [api EXCEPT !.at = "never_resolved"]
    /\ UNCHANGED <<mainVars, reference, call, telegram, overlap>>

NextCallAPI ==
    \/ CallAPI_checkRetries
    \/ CallAPI_fetchPrimary
    \/ CallAPI_fetchFailover
    \/ CallAPI_retryTimer

SpecCallAPI == InitCallAPI /\ [][NextCallAPI]_vars

\* C25 (as claimed): for every setting of API.RETRY_ATTEMPTS and
\* TG_BOT.NOTIFICATION_RETRIES, the promise of callAPI is never left without
\* anything that will resolve it.
C25_NeverLeftPending == api.at # "never_resolved"

\* C26: a run that finds every cache file in place and gauges.json younger
\* than the rate limit ends at the rate limit check: it fetched nothing,
\* wrote no cache file and built no notification.
C26_RateLimitedRunChangesNothing ==
    (pc = "exit_ratelimit" /\ ~history.created) =>
        /\ history.written = {}
        /\ rotations = 0
        /\ gauges = EmptyObject
        /\ indexedGauges = EmptyObject
        /\ deltas = EmptyObject
        /\ arrNotableEvents = <<>>
        /\ arrTelegramNotifications = <<>>
        /\ arrBatches = <<>>

C26_Witness ==
    /\ pc = "exit_ratelimit"
    /\ ~history.created
    /\ indexedFile # EmptyObject
    /\ oldFile # indexedFile

(***************************************************************************)
(* Two processes of the script on one cache directory, each step of a run  *)
(* taken between steps of the other                                        *)
(***************************************************************************)
Processes == {1, 2}

\* config.BEHAVIOR of config.template.js
TemplateBehavior == [IGNORE_EMPTY_DATA |-> FALSE, SKIP_SAVE_OLD_INDEXED_GAUGES |-> FALSE]

\* A process after initializeFiles, which found every file.
RunStarted == [pc |-> "fetch", found |-> "unchecked", gauges |-> EmptyObject,
               indexedGauges |-> EmptyObject, deltas |-> EmptyObject,
               arrNotableEvents |-> <<>>]

\* isRateLimitCheckOk that lets every run pass.
Run_isRateLimitCheckOk_Always(files) == TRUE

\* isRateLimitCheckOk() on the gauges.json the process finds
Run_isRateLimitCheckOk(files) == ~files.gaugesFresh

InitOverlap ==
    /\ NoRun
    /\ ~config.IGNORE_EMPTY_DATA
    /\ ~config.SKIP_SAVE_OLD_INDEXED_GAUGES
    /\ reference = ReferenceAtInstall
    /\ call = NoCall
    /\ telegram = NoDelivery
    /\ api = NoApiCall
    /\ \E old \in ScenarioOldSnapshots : \E data \in ScenarioAnswers(old) :
          overlap = [answer |-> data, gaugesFresh |-> FALSE, indexedFile |-> old,
                     oldFile |-> old, runs |-> [p \in Processes |-> RunStarted]]

\* fetchGauges: the rate limit check
Run_checkRateLimit(p) ==
    /\ overlap.runs[p].pc = "fetch"
    /\ overlap' = [overlap EXCEPT
                     !.runs[p].found = IF overlap.gaugesFresh THEN "fresh" ELSE "stale",
                     !.runs[p].pc = IF Run_isRateLimitCheckOk(overlap)
                                    THEN "callAPI" ELSE "exit_ratelimit"]

\* fetchGauges: data = await callAPI(...).then((res) => res.json())
Run_callAPI(p) ==
    /\ overlap.runs[p].pc = "callAPI"
    /\ overlap' = [overlap EXCEPT !.runs[p].gauges = [data |-> overlap.answer],
                                  !.runs[p].pc = "save_old_first"]

\* fetchGauges: save_oldIndexedGauges()
Run_saveOldFirst(p) ==
    /\ overlap.runs[p].pc = "save_old_first"
    /\ overlap' = [overlap EXCEPT
                     !.oldFile = save_oldIndexedGauges(TemplateBehavior, overlap.indexedFile,
                                                       overlap.oldFile),
                     !.runs[p].pc = "save_gauges"]

\* fetchGauges: fs.writeFileSync("./cache/gauges.json", ...)
Run_saveGauges(p) ==
    /\ overlap.runs[p].pc = "save_gauges"
    /\ overlap' = [overlap EXCEPT !.gaugesFresh = TRUE, !.runs[p].pc = "index"]

\* main, step 3
Run_indexGauges(p) ==
    /\ overlap.runs[p].pc = "index"
    /\ LET indexed == IndexGauges(overlap.runs[p].gauges["data"], EmptyObject)
       IN overlap' = [overlap EXCEPT !.runs[p].indexedGauges = indexed,
                                     !.indexedFile = save_indexedGauges(indexed),
                                     !.runs[p].pc = "diff"]

\* main, step 4 (deltas)
Run_createDeltas(p) ==
    /\ overlap.runs[p].pc = "diff"
    /\ overlap' = [overlap EXCEPT
                     !.runs[p].deltas = CreateDeltas(get_oldIndexedGauges(overlap.oldFile),
                                                     overlap.runs[p].indexedGauges),
                     !.runs[p].pc = "classify"]

\* main, step 4 (process deltas), with every lookup answered
Run_processDeltas(p) ==
    /\ overlap.runs[p].pc = "classify"
    /\ overlap' = [overlap EXCEPT
                     !.runs[p].arrNotableEvents =
                         processDeltas(overlap.runs[p].deltas,
                                       overlap.runs[p].indexedGauges, TRUE).events,
                     !.runs[p].pc = "save_old_last"]

\* main, step 7, and the end of the run
Run_saveOldLast(p) ==
    /\ overlap.runs[p].pc = "save_old_last"
    /\ overlap' = [overlap EXCEPT
                     !.oldFile = save_oldIndexedGauges(TemplateBehavior, overlap.indexedFile,
                                                       overlap.oldFile),
                     !.runs[p].pc = "done"]

Run_checks == \E p \in Processes : Run_checkRateLimit(p) /\ UNCHANGED <<mainVars, reference, call, telegram, api>>

Run_fetches == \E p \in Processes : Run_callAPI(p) /\ UNCHANGED <<mainVars, reference, call, telegram, api>>

Run_rotatesFirst == \E p \in Processes : Run_saveOldFirst(p) /\ UNCHANGED <<mainVars, reference, call, telegram, api>>

Run_writesGauges == \E p \in Processes : Run_saveGauges(p) /\ UNCHANGED <<mainVars, reference, call, telegram, api>>

Run_indexes == \E p \in Processes : Run_indexGauges(p) /\ UNCHANGED <<mainVars, reference, call, telegram, api>>

Run_diffs == \E p \in Processes : Run_createDeltas(p) /\ UNCHANGED <<mainVars, reference, call, telegram, api>>

Run_classifies == \E p \in Processes : Run_processDeltas(p) /\ UNCHANGED <<mainVars, reference, call, telegram, api>>

Run_rotatesLast == \E p \in Processes : Run_saveOldLast(p) /\ UNCHANGED <<mainVars, reference, call, telegram, api>>

NextOverlap ==
    \/ Run_checks
    \/ Run_fetches
    \/ Run_rotatesFirst
    \/ Run_writesGauges
    \/ Run_indexes
    \/ Run_diffs
    \/ Run_classifies
    \/ Run_rotatesLast

SpecOverlap == InitOverlap /\ [][NextOverlap]_vars

\* C27 (as claimed): of two runs that interleave on the cache directory, at
\* most one has notable events for a given gauge.
C27_EventsInOneRunOnly ==
    \A i \in DOMAIN overlap.runs[1].arrNotableEvents :
    \A j \in DOMAIN overlap.runs[2].arrNotableEvents :
        EventKey(overlap.runs[1].arrNotableEvents[i])
            # EventKey(overlap.runs[2].arrNotableEvents[j])

\* C27 (amended): a run whose rate limit check finds the gauges.json the
\* other run has written ends at that check without events, so that two runs
\* have events for the same gauge only if each made its check before the
\* other wrote gauges.json.
C27_LateRunIsStopped ==
    /\ \A p \in Processes :
          overlap.runs[p].found = "fresh" =>
              /\ overlap.runs[p].pc = "exit_ratelimit"
              /\ overlap.runs[p].arrNotableEvents = <<>>
    /\ ~C27_EventsInOneRunOnly =>
          \A p \in Processes : overlap.runs[p].found = "stale"

C27_Witness ==
    /\ overlap.runs[1].found = "fresh"
    /\ overlap.runs[1].pc = "exit_ratelimit"
    /\ overlap.runs[2].pc = "done"
    /\ overlap.runs[2].arrNotableEvents # <<>>

\* C28: in the default configuration, as long as a gauge id is in every
\* snapshot the runs index, at most one completed run has a NEW_* event for
\* it.
C28_AnnouncedAtMostOnce ==
    DefaultConfig => \A id \in GaugeIds : history.announced[id] <= 1

C28_Witness ==
    /\ DefaultConfig
    /\ pc = "done"
    /\ history.interrupted = NoSnapshot
    /\ \E id \in DOMAIN indexedGauges \cap DOMAIN oldIndexedGauges :
          /\ history.announced[id] = 1
          /\ ~AnnouncesNew(arrNotableEvents, id)
          /\ indexedGauges[id] # oldIndexedGauges[id]

\* C30 (as claimed): the run in which initializeFiles has created the cache
\* files passes the rate limit check and goes on to fetch the gauges; it does
\* not end as rate-limited.
C30_FirstRunFetches ==
    history.created => pc # "exit_ratelimit"

====
